---- MODULE Spec2Model ----
(***************************************************************************)
(* Model of the Bedrock knowledge-base tooling:                            *)
(*   - knowledge_base_s3.py: BedrockKnowledgeBase (provisioning of the     *)
(*     bucket, vector store, IAM role and policies, knowledge base and     *)
(*     data source; teardown with delete_kb),                              *)
(*   - create_knowledge_base_s3vectors.py: per-document ingestion with     *)
(*     status polling and the fail-fast batch loop.                        *)
(* The specifications share the variables; each is about one part of the   *)
(* program and leaves the other parts' variables unchanged.                *)
(***************************************************************************)
EXTENDS Integers, Sequences, FiniteSets, TLC

VARIABLES
    \* ---- ingestion (create_knowledge_base_s3vectors.py) ----
    nFiles,          \* len(kb_files): the batch size N
    idx,             \* 1-based position of the batch loop in kb_files (0: not started)
    ipc,             \* position: "loop" | "submit" | "poll" | "returned" | "done" | "raised"
    waited,          \* ingest_single_document's local `waited`
    success_count,
    fail_count,
    ret,             \* ret[d]: what ingest_single_document returned for document d
    submitted,       \* documents for which the ingest call was issued
    initStatus,      \* status in the submit response of the current document
    sawIndexed,      \* some poll of the current document returned INDEXED
    sawFailed,       \* some poll of the current document returned FAILED
    submitRaised,    \* the submit call of the current document raised
    pollRaised,      \* some poll of the current document raised
    fetches,         \* status fetches made for the current document
    \* ---- teardown (BedrockKnowledgeBase.delete_kb) ----
    tpc,             \* position of delete_kb: the next call, "returned" or "raised"
    delete_s3_bucket,               \* delete_kb's flags
    delete_iam_roles_and_policies,
    tlog,            \* the cloud calls issued so far: <<[op, key, ok]>>
    objects,         \* keys held by the data bucket
    pending,         \* objects['Contents'] still to be deleted by the for loop
    present,         \* resources of the account that still exist
    attached,        \* policies attached to the execution role
    \* ---- provisioning (BedrockKnowledgeBase.__init__) ----
    run,             \* number of the constructor call in progress (0: none yet)
    ppc,             \* position of the constructor: the next step, or
                     \* "constructed" | "rejected" | "failed" | "raised" | "idle"
    embedding_model, \* the embedding_model argument of the run
    calls,           \* the cloud calls of the run, in order
    account,         \* named resources of the account that exist
    indexDimension,  \* dimension of the account's vector index (0: no index)
    policyDoc,       \* default version's document of each policy
    policyVersions,  \* number of versions of each policy
    trust,           \* the role's trust policy
    roleAttached,    \* policies attached to the role
    kbs,             \* the account's knowledge bases, in listing order
    dss,             \* the account's data sources, in listing order
    nextId,          \* next identifier the provider assigns
    self_,           \* the fields the constructor has set on self; knowledge_base
                     \* and data_source hold create_knowledge_base's kb and ds,
                     \* which are dropped when an attempt raises
    attempt,         \* attempt_number of the retry wrapper
    attempts,        \* outcome of each finished attempt of the run
    kbOutcome,       \* outcome of the create-knowledge-base call of the attempt
    dsOutcome,       \* outcome of the create-data-source call of the attempt
    results,         \* what each finished run ended with
    \* ---- the caller's wait (create_bedrock_knowledge_base) ----
    wpc,             \* position: "loop" | "sleep" | "after_loop" | "returned" | "raised"
    kb_waited,       \* the local `waited` of create_bedrock_knowledge_base
    kb_status,       \* the local `status`: what the last status check read
    checkedAt,       \* value of `waited` at each get_knowledge_base call
    warned,          \* the timeout warning was printed
    kbState,         \* the knowledge base's status in the service
    \* ---- bulk job mode (BedrockKnowledgeBase.start_ingestion_job) ----
    jpc,             \* position: "start" | "poll" | "sleep" | "returned" | "raised"
    job_status,      \* job['status']: the status in the last response
    polls,           \* number of get_ingestion_job calls made
    jobState,        \* the ingestion job's status in the service
    \* ---- the provisioning flow of main (create_knowledge_base_s3vectors.py) ----
    mpc,             \* position of main: the next step, "done", "returned" or "raised"
    acctKbs,         \* the account's knowledge bases, in listing order
    acctDss,         \* the account's data sources, in listing order
    knowledge_base_id,
    data_source_id,
    created,         \* create_bedrock_knowledge_base was called
    ingestedInto,    \* the ids handed to ingest_knowledge_base_documents
    \* ---- repeated calls of create_bedrock_kb_execution_role ----
    roleCalls,       \* number of the call of the method in progress or returned
    trustBefore,     \* the role's trust policy when that call began
    \* ---- concurrent constructors: create_s3_bucket, create_s3_vector_resources ----
    region_name,     \* self.region_name of the invocations
    rpc,             \* rpc[p]: the next call of invocation p, "returned" or "raised"
    headAnswer,      \* headAnswer[p]: what head_bucket answered invocation p
    createAnswer,    \* createAnswer[p]: what create_bucket answered invocation p
    raisedWith,      \* raisedWith[p]: the exception that left invocation p
    dataBuckets,     \* the data buckets of the name in the account, by creator
    vectorBuckets,   \* the vector buckets of the name in the account, by creator
    vectorIndexes,   \* the indexes of the name in the vector bucket, by creator
    vector_bucket_arn,   \* vector_bucket_arn[p] as resolved by invocation p
    vector_index_arn     \* vector_index_arn[p] as resolved by invocation p

ingestVars == <<nFiles, idx, ipc, waited, success_count, fail_count, ret,
                submitted, initStatus, sawIndexed, sawFailed, submitRaised,
                pollRaised, fetches>>

tearVars == <<tpc, delete_s3_bucket, delete_iam_roles_and_policies, tlog,
              objects, pending, present, attached>>

provVars == <<run, ppc, embedding_model, calls, account, indexDimension,
              policyDoc,
              policyVersions, trust, roleAttached, kbs, dss, nextId, self_,
              attempt, attempts, kbOutcome, dsOutcome, results>>

waitVars == <<wpc, kb_waited, kb_status, checkedAt, warned, kbState>>

jobVars == <<jpc, job_status, polls, jobState>>

mainVars == <<mpc, acctKbs, acctDss, knowledge_base_id, data_source_id,
              created, ingestedInto>>

roleVars == <<roleCalls, trustBefore>>
raceVars == <<region_name, rpc, headAnswer, createAnswer, raisedWith,
              dataBuckets, vectorBuckets, vectorIndexes, vector_bucket_arn,
              vector_index_arn>>

vars == <<ingestVars, tearVars, provVars, waitVars, jobVars, mainVars, roleVars,
          raceVars>>

\* What the actions of one part leave unchanged: the other parts' variables.
notIngestVars == <<tearVars, provVars, waitVars, jobVars, mainVars,
    roleVars, raceVars>>
notTeardownVars == <<ingestVars, provVars, waitVars, jobVars, mainVars,
    roleVars, raceVars>>
notProvisionVars == <<ingestVars, tearVars, waitVars, jobVars, mainVars,
    roleVars, raceVars>>
notWaitVars == <<ingestVars, tearVars, provVars, jobVars, mainVars,
    roleVars, raceVars>>
notJobVars == <<ingestVars, tearVars, provVars, waitVars, mainVars,
    roleVars, raceVars>>
notMainVars == <<ingestVars, tearVars, provVars, waitVars, jobVars,
    roleVars, raceVars>>
notRoleVars == <<ingestVars, tearVars, provVars, waitVars, jobVars, mainVars,
    raceVars>>
notRaceVars == <<ingestVars, tearVars, provVars, waitVars, jobVars, mainVars,
    roleVars>>

(***************************************************************************)
(* Ingestion: ingest_single_document and ingest_knowledge_base_documents   *)
(***************************************************************************)

\* Largest batch explored.
MaxDocs == 3

\* max_wait = 60 and the 5-unit sleep of the poll loop.
max_wait == 60
PollInterval == 5

\* Document statuses the service reports; the code tells apart only INDEXED
\* and FAILED, every other value keeps the loop polling.
DocStatuses == {"PENDING", "IN_PROGRESS", "INDEXED", "FAILED"}

\* What one status fetch can produce: a status, an empty documentDetails
\* list, or an exception.
PollOutcomes == DocStatuses \cup {"empty", "raise"}

\* What the submit call can produce: the initial status, or an exception.
SubmitOutcomes == DocStatuses \cup {"raise"}

\* The while condition of the poll loop.
LoopContinuesPastBound(w) == w < max_wait + PollInterval
LoopContinuesLong(w) == w <= max_wait
LoopContinues(w) == w < max_wait

\* The body of one poll: "True"/"False" when the function returns, "continue"
\* when the loop goes on (non-terminal status, empty response, or an
\* exception swallowed by the inner except clause).
PollDecisionFailOnError(o) ==
    IF o = "INDEXED" THEN "True"
    ELSE IF o \in {"FAILED", "raise"} THEN "False"
    ELSE "continue"
PollDecisionIgnoresIndexed(o) ==
    IF o = "FAILED" THEN "False" ELSE "continue"
PollDecision(o) ==
    IF o = "INDEXED" THEN "True"
    ELSE IF o = "FAILED" THEN "False"
    ELSE "continue"

\* What the function does with the status of the submit response: it is
\* printed and the function goes on to the poll loop, whatever its value.
InitialDecisionTrusted(s) ==
    IF s = "INDEXED" THEN "True"
    ELSE IF s = "FAILED" THEN "False"
    ELSE "continue"
InitialDecision(s) == "continue"

\* The outer except clause: a submit exception is printed and the function
\* returns False (with no handler the result would be "escape": the
\* exception leaves the function).
SubmitExceptionResult == "False"

\* Where the batch loop goes after a failed document: break, then the summary.
AfterFailureContinue == "loop"
AfterFailure == "done"

InitIngest ==
    /\ nFiles \in 0..MaxDocs
    /\ idx = 0
    /\ ipc = "loop"
    /\ waited = 0
    /\ success_count = 0
    /\ fail_count = 0
    /\ ret = [d \in 1..nFiles |-> "none"]
    /\ submitted = {}
    /\ initStatus = "none"
    /\ sawIndexed = FALSE
    /\ sawFailed = FALSE
    /\ submitRaised = FALSE
    /\ pollRaised = FALSE
    /\ fetches = 0

IdleIngest ==
    /\ nFiles = 0
    /\ idx = 0
    /\ ipc = "idle"
    /\ waited = 0
    /\ success_count = 0
    /\ fail_count = 0
    /\ ret = <<>>
    /\ submitted = {}
    /\ initStatus = "none"
    /\ sawIndexed = FALSE
    /\ sawFailed = FALSE
    /\ submitRaised = FALSE
    /\ pollRaised = FALSE
    /\ fetches = 0

\* for kb_file in kb_files: take the next file and call
\* ingest_single_document, or leave the loop and return the counts.
BatchNext ==
    /\ ipc = "loop"
    /\ IF idx < nFiles
       THEN /\ idx' = idx + 1
            /\ ipc' = "submit"
       ELSE /\ idx' = idx
            /\ ipc' = "done"
    /\ waited' = 0
    /\ initStatus' = "none"
    /\ sawIndexed' = FALSE
    /\ sawFailed' = FALSE
    /\ submitRaised' = FALSE
    /\ pollRaised' = FALSE
    /\ fetches' = 0
    /\ UNCHANGED <<nFiles, success_count, fail_count, ret, submitted>>
    /\ UNCHANGED notIngestVars

\* bedrock_agent_client.ingest_knowledge_base_documents(...) and the read of
\* the initial status.
Submit(o) ==
    /\ ipc = "submit"
    /\ submitted' = submitted \cup {idx}
    /\ IF o = "raise"
       THEN /\ submitRaised' = TRUE
            /\ IF SubmitExceptionResult = "escape"
               THEN /\ ret' = ret
                    /\ ipc' = "raised"
               ELSE /\ ret' = [ret EXCEPT ![idx] = SubmitExceptionResult]
                    /\ ipc' = "returned"
            /\ initStatus' = initStatus
       ELSE /\ submitRaised' = FALSE
            /\ initStatus' = o
            /\ IF InitialDecision(o) = "continue"
               THEN /\ ret' = ret
                    /\ ipc' = "poll"
               ELSE /\ ret' = [ret EXCEPT ![idx] = InitialDecision(o)]
                    /\ ipc' = "returned"
    /\ waited' = 0
    /\ fetches' = 0
    /\ UNCHANGED <<nFiles, idx, success_count, fail_count, sawIndexed,
                   sawFailed, pollRaised>>
    /\ UNCHANGED notIngestVars

\* One iteration of the poll loop: sleep, fetch the status, decide; when the
\* loop condition fails afterwards the function reports the timeout.
Poll(o) ==
    /\ ipc = "poll"
    /\ LoopContinues(waited)
    /\ waited' = waited + PollInterval
    /\ sawIndexed' = (sawIndexed \/ o = "INDEXED")
    /\ sawFailed' = (sawFailed \/ o = "FAILED")
    /\ pollRaised' = (pollRaised \/ o = "raise")
    /\ fetches' = fetches + 1
    /\ LET d == PollDecision(o) IN
         IF d # "continue"
         THEN /\ ret' = [ret EXCEPT ![idx] = d]
              /\ ipc' = "returned"
         ELSE IF LoopContinues(waited')
              THEN /\ ret' = ret
                   /\ ipc' = "poll"
              ELSE /\ ret' = [ret EXCEPT ![idx] = "False"]
                   /\ ipc' = "returned"
    /\ UNCHANGED <<nFiles, idx, success_count, fail_count, submitted,
                   initStatus, submitRaised>>
    /\ UNCHANGED notIngestVars

\* if ingest_single_document(...): success_count += 1
\* else: fail_count += 1; break
BatchAccount ==
    /\ ipc = "returned"
    /\ IF ret[idx] = "True"
       THEN /\ success_count' = success_count + 1
            /\ fail_count' = fail_count
            /\ ipc' = "loop"
       ELSE /\ fail_count' = fail_count + 1
            /\ success_count' = success_count
            /\ ipc' = AfterFailure
    /\ UNCHANGED <<nFiles, idx, waited, ret, submitted, initStatus,
                   sawIndexed, sawFailed, submitRaised, pollRaised, fetches>>
    /\ UNCHANGED notIngestVars

NextIngest ==
    \/ BatchNext
    \/ \E o \in SubmitOutcomes : Submit(o)
    \/ \E o \in PollOutcomes : Poll(o)
    \/ BatchAccount

(***************************************************************************)
(* Teardown: delete_kb, delete_s3, delete_iam_roles_and_policies           *)
(***************************************************************************)

\* Largest number of objects in the data bucket explored.
MaxObjects == 3

\* The resources delete_kb may delete.
Resources == {"data_source", "knowledge_base", "bucket", "role",
              "s3_policy", "fm_policy"}

\* What the cloud requires of a delete call besides the resource existing:
\* a bucket must be empty, a role must have no attached policy, a policy must
\* be attached to no role.
CloudAccepts(op, key) ==
    CASE op = "delete_data_source" -> "data_source" \in present
      [] op = "delete_knowledge_base" -> "knowledge_base" \in present
      [] op = "list_objects" -> "bucket" \in present
      [] op = "delete_object" -> "bucket" \in present
      [] op = "delete_bucket" -> "bucket" \in present /\ objects = {}
      [] op = "detach_s3_policy" -> "role" \in present /\ "s3_policy" \in attached
      [] op = "detach_fm_policy" -> "role" \in present /\ "fm_policy" \in attached
      [] op = "delete_role" -> "role" \in present /\ attached = {}
      [] op = "delete_s3_policy" -> "s3_policy" \in present /\ "s3_policy" \notin attached
      [] op = "delete_fm_policy" -> "fm_policy" \in present /\ "fm_policy" \notin attached
      [] OTHER -> FALSE

\* One cloud call of the teardown: it succeeds when the service is up (up)
\* and the cloud accepts it; it is logged either way.
CallOk(op, key, up) == up /\ CloudAccepts(op, key)
Logged(op, key, up) == Append(tlog, [op |-> op, key |-> key, ok |-> CallOk(op, key, up)])

\* delete_kb and its helpers have no try/except: a failed call raises out of
\* delete_kb, a successful one goes on to the next statement.
AfterCallSwallowed(ok, next) == next
AfterCall(ok, next) == IF ok THEN next ELSE "raised"

\* if delete_s3_bucket: self.delete_s3()
\* if delete_iam_roles_and_policies: self.delete_iam_roles_and_policies()
AfterKnowledgeBaseNoStorage ==
    IF delete_iam_roles_and_policies THEN "detach_s3_policy" ELSE "returned"
AfterKnowledgeBase ==
    IF delete_s3_bucket THEN "list_objects"
    ELSE IF delete_iam_roles_and_policies THEN "detach_s3_policy"
    ELSE "returned"
AfterStorage ==
    IF delete_iam_roles_and_policies THEN "detach_s3_policy" ELSE "returned"

\* The for loop of delete_s3 is over when every listed key was deleted.
LoopOverEarly == TRUE
LoopOver == pending = <<>>

\* The keys of the bucket, in key order.
RECURSIVE KeysInOrder(_)
KeysInOrder(keys) ==
    IF keys = {} THEN <<>>
    ELSE LET k == CHOOSE x \in keys : \A y \in keys : x <= y
         IN <<k>> \o KeysInOrder(keys \ {k})

\* One list_objects answer holds at most a page of keys (1000 at the service;
\* the model scales the page down with the bucket); the rest is announced by
\* IsTruncated and needs a further call with a marker.
ListPageLimit == 2

\* objects['Contents'] of the single list_objects call of delete_s3: the
\* first page of the keys; the code reads neither IsTruncated nor a marker.
Listing(keys) ==
    LET all == KeysInOrder(keys)
    IN IF Len(all) <= ListPageLimit THEN all
       ELSE SubSeq(all, 1, ListPageLimit)

InitTeardown ==
    /\ tpc = "delete_data_source"
    /\ delete_s3_bucket \in BOOLEAN
    /\ delete_iam_roles_and_policies \in BOOLEAN
    /\ tlog = <<>>
    /\ objects \in {1..n : n \in 0..MaxObjects}
    /\ pending = <<>>
    /\ present = Resources
    /\ attached = {"s3_policy", "fm_policy"}

IdleTeardown ==
    /\ tpc = "idle"
    /\ delete_s3_bucket = FALSE
    /\ delete_iam_roles_and_policies = FALSE
    /\ tlog = <<>>
    /\ objects = {}
    /\ pending = <<>>
    /\ present = {}
    /\ attached = {}

\* self.bedrock_agent_client.delete_data_source(...)
DeleteDataSource(up) ==
    /\ tpc = "delete_data_source"
    /\ LET ok == CallOk("delete_data_source", 0, up) IN
         /\ tlog' = Logged("delete_data_source", 0, up)
         /\ present' = IF ok THEN present \ {"data_source"} ELSE present
         /\ tpc' = AfterCall(ok, "delete_knowledge_base")
    /\ UNCHANGED <<delete_s3_bucket, delete_iam_roles_and_policies, objects,
                   pending, attached>>
    /\ UNCHANGED notTeardownVars

\* self.bedrock_agent_client.delete_knowledge_base(...)
DeleteKnowledgeBase(up) ==
    /\ tpc = "delete_knowledge_base"
    /\ LET ok == CallOk("delete_knowledge_base", 0, up) IN
         /\ tlog' = Logged("delete_knowledge_base", 0, up)
         /\ present' = IF ok THEN present \ {"knowledge_base"} ELSE present
         /\ tpc' = AfterCall(ok, AfterKnowledgeBase)
    /\ UNCHANGED <<delete_s3_bucket, delete_iam_roles_and_policies, objects,
                   pending, attached>>
    /\ UNCHANGED notTeardownVars

\* delete_s3: objects = self.s3_client.list_objects(Bucket=...)
ListObjects(up) ==
    /\ tpc = "list_objects"
    /\ LET ok == CallOk("list_objects", 0, up) IN
         /\ tlog' = Logged("list_objects", 0, up)
         /\ pending' = IF ok THEN Listing(objects) ELSE pending
         /\ tpc' = AfterCall(ok, "delete_objects")
    /\ UNCHANGED <<delete_s3_bucket, delete_iam_roles_and_policies, objects,
                   present, attached>>
    /\ UNCHANGED notTeardownVars

\* delete_s3: one iteration of the for loop, delete_object(Key=obj['Key'])
DeleteObject(up) ==
    /\ tpc = "delete_objects"
    /\ pending # <<>>
    /\ LET key == Head(pending)
           ok == CallOk("delete_object", key, up) IN
         /\ tlog' = Logged("delete_object", key, up)
         /\ objects' = IF ok THEN objects \ {key} ELSE objects
         /\ pending' = IF ok THEN Tail(pending) ELSE pending
         /\ tpc' = AfterCall(ok, "delete_objects")
    /\ UNCHANGED <<delete_s3_bucket, delete_iam_roles_and_policies, present,
                   attached>>
    /\ UNCHANGED notTeardownVars

\* delete_s3: self.s3_client.delete_bucket(Bucket=...) after the loop
DeleteBucket(up) ==
    /\ tpc = "delete_objects"
    /\ LoopOver
    /\ LET ok == CallOk("delete_bucket", 0, up) IN
         /\ tlog' = Logged("delete_bucket", 0, up)
         /\ present' = IF ok THEN present \ {"bucket"} ELSE present
         /\ tpc' = AfterCall(ok, AfterStorage)
    /\ UNCHANGED <<delete_s3_bucket, delete_iam_roles_and_policies, objects,
                   pending, attached>>
    /\ UNCHANGED notTeardownVars

\* delete_iam_roles_and_policies: detach_role_policy(PolicyArn=s3_policy_arn)
DetachS3Policy(up) ==
    /\ tpc = "detach_s3_policy"
    /\ LET ok == CallOk("detach_s3_policy", 0, up) IN
         /\ tlog' = Logged("detach_s3_policy", 0, up)
         /\ attached' = IF ok THEN attached \ {"s3_policy"} ELSE attached
         /\ tpc' = AfterCall(ok, "detach_fm_policy")
    /\ UNCHANGED <<delete_s3_bucket, delete_iam_roles_and_policies, objects,
                   pending, present>>
    /\ UNCHANGED notTeardownVars

\* delete_iam_roles_and_policies: detach_role_policy(PolicyArn=fm_policy_arn)
DetachFmPolicy(up) ==
    /\ tpc = "detach_fm_policy"
    /\ LET ok == CallOk("detach_fm_policy", 0, up) IN
         /\ tlog' = Logged("detach_fm_policy", 0, up)
         /\ attached' = IF ok THEN attached \ {"fm_policy"} ELSE attached
         /\ tpc' = AfterCall(ok, "delete_role")
    /\ UNCHANGED <<delete_s3_bucket, delete_iam_roles_and_policies, objects,
                   pending, present>>
    /\ UNCHANGED notTeardownVars

\* delete_iam_roles_and_policies: delete_role(RoleName=...)
DeleteRole(up) ==
    /\ tpc = "delete_role"
    /\ LET ok == CallOk("delete_role", 0, up) IN
         /\ tlog' = Logged("delete_role", 0, up)
         /\ present' = IF ok THEN present \ {"role"} ELSE present
         /\ tpc' = AfterCall(ok, "delete_s3_policy")
    /\ UNCHANGED <<delete_s3_bucket, delete_iam_roles_and_policies, objects,
                   pending, attached>>
    /\ UNCHANGED notTeardownVars

\* delete_iam_roles_and_policies: delete_policy(PolicyArn=s3_policy_arn)
DeleteS3Policy(up) ==
    /\ tpc = "delete_s3_policy"
    /\ LET ok == CallOk("delete_s3_policy", 0, up) IN
         /\ tlog' = Logged("delete_s3_policy", 0, up)
         /\ present' = IF ok THEN present \ {"s3_policy"} ELSE present
         /\ tpc' = AfterCall(ok, "delete_fm_policy")
    /\ UNCHANGED <<delete_s3_bucket, delete_iam_roles_and_policies, objects,
                   pending, attached>>
    /\ UNCHANGED notTeardownVars

\* delete_iam_roles_and_policies: delete_policy(PolicyArn=fm_policy_arn),
\* return 0
DeleteFmPolicy(up) ==
    /\ tpc = "delete_fm_policy"
    /\ LET ok == CallOk("delete_fm_policy", 0, up) IN
         /\ tlog' = Logged("delete_fm_policy", 0, up)
         /\ present' = IF ok THEN present \ {"fm_policy"} ELSE present
         /\ tpc' = AfterCall(ok, "returned")
    /\ UNCHANGED <<delete_s3_bucket, delete_iam_roles_and_policies, objects,
                   pending, attached>>
    /\ UNCHANGED notTeardownVars

NextTeardown ==
    \/ \E up \in BOOLEAN : DeleteDataSource(up)
    \/ \E up \in BOOLEAN : DeleteKnowledgeBase(up)
    \/ \E up \in BOOLEAN : ListObjects(up)
    \/ \E up \in BOOLEAN : DeleteObject(up)
    \/ \E up \in BOOLEAN : DeleteBucket(up)
    \/ \E up \in BOOLEAN : DetachS3Policy(up)
    \/ \E up \in BOOLEAN : DetachFmPolicy(up)
    \/ \E up \in BOOLEAN : DeleteRole(up)
    \/ \E up \in BOOLEAN : DeleteS3Policy(up)
    \/ \E up \in BOOLEAN : DeleteFmPolicy(up)

(***************************************************************************)
(* Provisioning: BedrockKnowledgeBase.__init__ and the create_* methods    *)
(***************************************************************************)

\* Number of constructor calls explored, all with the same names.
MaxRuns == 2

valid_embedding_models ==
    {"cohere.embed-multilingual-v3", "cohere.embed-english-v3",
     "amazon.titan-embed-text-v2:0"}

\* The embedding_model arguments explored: the allow-list and one other.
Models == valid_embedding_models \cup {"other.embed-model"}

\* create_index(..., dimension=1024, ...): the dimension of every index the
\* code creates, and the dimensions an index already in the account may have.
dimension == 1024
IndexDimensions == {512, 1024}

\* The output width of the embedding models: the source gives 1024, as the
\* width of amazon.titan-embed-text-v2:0, and uses it for every model of the
\* allow-list.
DeclaredWidth(model) == 1024

\* self.kb_name, and the name of a knowledge base the account may already
\* hold for another purpose.
kb_name == "pets-kb"
OtherKbName == "other-kb"

\* @retry(..., stop_max_attempt_number=7): the wrapper gives up when the
\* attempt that just failed has this number.
stop_max_attempt_number == 7
ShouldStopLate(n) == n > stop_max_attempt_number
ShouldStop(n) == n >= stop_max_attempt_number

\* Python's except dispatch: the first clause, in source order, whose class
\* the raised exception is an instance of. Every service exception derives
\* from Exception.
IsInstance(exc, cls) == cls = "Exception" \/ cls = exc
Dispatch(exc, clauses) ==
    IF \E i \in 1..Len(clauses) : IsInstance(exc, clauses[i])
    THEN clauses[CHOOSE i \in 1..Len(clauses) :
                    /\ IsInstance(exc, clauses[i])
                    /\ \A j \in 1..(i - 1) : ~IsInstance(exc, clauses[j])]
    ELSE "unhandled"

\* The except clauses after the create_knowledge_base call, and after the
\* create_data_source call, in source order.
KbCreateClauses == <<"Exception", "ConflictException">>
DsCreateClausesNone == <<>>
DsCreateClauses == <<"ConflictException">>

\* for kb in kbs['knowledgeBaseSummaries']: if kb['name'] == self.kb_name:
\*     kb_id = kb['knowledgeBaseId']       (no break: the last match wins)
RECURSIVE MatchByName(_, _, _)
MatchByName(list, name, found) ==
    IF list = <<>> THEN found
    ELSE MatchByName(Tail(list), name,
                     IF Head(list).name = name THEN Head(list).id ELSE found)

\* list_data_sources(knowledgeBaseId=...)['dataSourceSummaries']
RECURSIVE DataSourcesOf(_, _)
DataSourcesOf(list, kb) ==
    IF list = <<>> THEN <<>>
    ELSE (IF Head(list).kb = kb THEN <<Head(list).id>> ELSE <<>>)
             \o DataSourcesOf(Tail(list), kb)

\* What the service answers to create_knowledge_base: an error when it is
\* unavailable for this call (fault: e.g. the role is not assumable yet), a
\* conflict when a knowledge base of that name exists, else it creates one.
KbCreateAnswer(fault) ==
    IF fault THEN "ValidationException"
    ELSE IF \E i \in 1..Len(kbs) : kbs[i].name = kb_name THEN "ConflictException"
    ELSE "created"

\* How a create_data_source request can go: the service serves it, fails
\* it, or serves it twice (the client library sends the request again when
\* the first response is lost, and the caller sees the second answer).
DsRequests == {"served", "failed", "replayed"}

\* What the caller of create_data_source for knowledge base kb is answered.
DsCreateAnswer(request, kb) ==
    IF request = "failed" THEN "ValidationException"
    ELSE IF request = "replayed" \/ DataSourcesOf(dss, kb) # <<>>
    THEN "ConflictException"
    ELSE "created"

\* ['dataSourceSummaries'][0]['dataSourceId']
AdoptedDataSource(listing) == listing[1]

Unset ==
    [vector_bucket_arn |-> "", vector_index_arn |-> "", role |-> "",
     knowledge_base |-> 0, data_source |-> 0]

\* A finished run, as recorded in results; faulted: the service failed some
\* call of the run for a reason other than a conflict.
RunRecord(ok, model, fields, acc, kbl, dsl, outcomes) ==
    [ok |-> ok, model |-> model, fields |-> fields,
     account |-> acc, kbs |-> kbl, dss |-> dsl,
     faulted |-> \E i \in 1..Len(outcomes) :
                    outcomes[i] \in {"kb_error", "ds_error"}]

InitProvision ==
    /\ run = 0
    /\ ppc = "idle"
    /\ embedding_model = "none"
    /\ calls = <<>>
    /\ indexDimension \in {0} \cup IndexDimensions
    /\ account = IF indexDimension = 0 THEN {}
                 ELSE {"vector_bucket", "vector_index"}
    /\ policyDoc = [p \in {"fm_policy", "s3_policy"} |-> "absent"]
    /\ policyVersions = [p \in {"fm_policy", "s3_policy"} |-> 0]
    /\ trust = "absent"
    /\ roleAttached = {}
    /\ kbs \in {<<>>, <<[id |-> 1, name |-> OtherKbName]>>}
    /\ dss = <<>>
    /\ nextId = Len(kbs) + 1
    /\ self_ = Unset
    /\ attempt = 0
    /\ attempts = <<>>
    /\ kbOutcome = "none"
    /\ dsOutcome = "none"
    /\ results = <<>>

IdleProvision ==
    /\ run = 0
    /\ ppc = "off"
    /\ embedding_model = "none"
    /\ calls = <<>>
    /\ account = {}
    /\ indexDimension = 0
    /\ policyDoc = <<>>
    /\ policyVersions = <<>>
    /\ trust = "absent"
    /\ roleAttached = {}
    /\ kbs = <<>>
    /\ dss = <<>>
    /\ nextId = 1
    /\ self_ = Unset
    /\ attempt = 0
    /\ attempts = <<>>
    /\ kbOutcome = "none"
    /\ dsOutcome = "none"
    /\ results = <<>>

\* BedrockKnowledgeBase(kb_name, ..., embedding_model=model): the session,
\* the clients and the sts call, then the allow-list check.
Construct(model) ==
    /\ ppc \in {"idle", "constructed", "rejected", "failed", "raised"}
    /\ run < MaxRuns
    /\ run' = run + 1
    /\ embedding_model' = model
    /\ calls' = <<"sts.get_caller_identity">>
    /\ self_' = Unset
    /\ attempt' = 0
    /\ attempts' = <<>>
    /\ kbOutcome' = "none"
    /\ dsOutcome' = "none"
    /\ IF model \notin valid_embedding_models
       THEN /\ ppc' = "rejected"
            /\ results' = Append(results,
                                 RunRecord(FALSE, model, Unset, account, kbs, dss, <<>>))
       ELSE /\ ppc' = "create_s3_bucket"
            /\ results' = results
    /\ UNCHANGED <<account, indexDimension, policyDoc, policyVersions, trust,
                   roleAttached, kbs, dss, nextId>>
    /\ UNCHANGED notProvisionVars

\* create_s3_bucket: head_bucket, and create_bucket when it raised.
CreateS3Bucket ==
    /\ ppc = "create_s3_bucket"
    /\ IF "bucket" \in account
       THEN /\ calls' = calls \o <<"s3.head_bucket">>
            /\ account' = account
       ELSE /\ calls' = calls \o <<"s3.head_bucket", "s3.create_bucket">>
            /\ account' = account \cup {"bucket"}
    /\ ppc' = "create_s3_vector_resources"
    /\ UNCHANGED <<run, embedding_model, indexDimension, policyDoc, policyVersions, trust,
                   roleAttached, kbs, dss, nextId, self_, attempt, attempts,
                   kbOutcome, dsOutcome, results>>
    /\ UNCHANGED notProvisionVars

\* create_s3_vector_resources: create the vector bucket, then the index, each
\* falling back to the get call on ConflictException; an index that exists
\* is adopted as it is, its dimension is not looked at.
CreateS3VectorResources ==
    /\ ppc = "create_s3_vector_resources"
    /\ calls' = calls
          \o (IF "vector_bucket" \in account
              THEN <<"s3vectors.create_vector_bucket", "s3vectors.get_vector_bucket">>
              ELSE <<"s3vectors.create_vector_bucket">>)
          \o (IF "vector_index" \in account
              THEN <<"s3vectors.create_index", "s3vectors.get_index">>
              ELSE <<"s3vectors.create_index">>)
    /\ account' = account \cup {"vector_bucket", "vector_index"}
    /\ indexDimension' = IF "vector_index" \in account THEN indexDimension
                         ELSE dimension
    /\ self_' = [self_ EXCEPT !.vector_bucket_arn = "arn:vector_bucket",
                              !.vector_index_arn = "arn:vector_index"]
    /\ ppc' = "create_bedrock_kb_execution_role"
    /\ UNCHANGED <<run, embedding_model, policyDoc, policyVersions, trust,
                   roleAttached, kbs, dss, nextId, attempt, attempts,
                   kbOutcome, dsOutcome, results>>
    /\ UNCHANGED notProvisionVars

\* create_policy_version is called only in the except clause of the storage
\* policy; the foundation-model policy that exists is only fetched.
PushesVersion(p) == p = "s3_policy"

\* The default version's document of policy p after its try block, when the
\* policy existed with document old.
AdoptedDocument(p, old) == IF PushesVersion(p) THEN "required" ELSE old

\* IAM keeps at most five versions of a managed policy, and the code deletes
\* none: create_policy_version is accepted while the policy has fewer.
VersionAccepted(n) == n < 5

\* update_assume_role_policy(PolicyDocument=assume_role_policy_document) on
\* the role that exists, whatever its trust policy was.
TrustAfterAdoptionKept(old) == old
TrustAfterAdoption(old) == "required"

\* interactive_sleep(60): the whole wait, one second at a time, before the
\* method returns.
PropagationWaitSkipped == <<>>
PropagationWait == <<"sleep">>

\* The calls of the three try blocks, by whether the resource exists.
FmPolicyCalls ==
    IF "fm_policy" \in account
    THEN <<"iam.create_policy", "iam.get_policy">>
    ELSE <<"iam.create_policy">>
S3PolicyCalls ==
    IF "s3_policy" \in account
    THEN <<"iam.create_policy", "iam.get_policy", "iam.create_policy_version">>
    ELSE <<"iam.create_policy">>
RoleCalls ==
    IF "role" \in account
    THEN <<"iam.create_role", "iam.get_role", "iam.update_assume_role_policy">>
    ELSE <<"iam.create_role">>

\* create_bedrock_kb_execution_role: the two policies (the storage policy
\* gets a new default version when it exists), the role (its trust policy is
\* rewritten when it exists), the two attachments, the 60 s wait. A refused
\* create_policy_version raises out of the method: it is called inside an
\* except clause, with no handler around it.
CreateExecutionRole ==
    /\ ppc = "create_bedrock_kb_execution_role"
    /\ IF "s3_policy" \in account => VersionAccepted(policyVersions["s3_policy"])
       THEN /\ calls' = calls \o FmPolicyCalls \o S3PolicyCalls \o RoleCalls
                 \o <<"iam.attach_role_policy", "iam.attach_role_policy">>
                 \o PropagationWait
            /\ policyDoc' = [p \in {"fm_policy", "s3_policy"} |->
                                IF p \notin account THEN "required"
                                ELSE AdoptedDocument(p, policyDoc[p])]
            /\ policyVersions' = [p \in {"fm_policy", "s3_policy"} |->
                                IF p \notin account THEN 1
                                ELSE IF PushesVersion(p) THEN policyVersions[p] + 1
                                ELSE policyVersions[p]]
            /\ trust' = IF "role" \in account THEN TrustAfterAdoption(trust)
                        ELSE "required"
            /\ roleAttached' = roleAttached \cup {"fm_policy", "s3_policy"}
            /\ account' = account \cup {"fm_policy", "s3_policy", "role"}
            /\ self_' = [self_ EXCEPT !.role = "arn:role"]
            /\ attempt' = 1
            /\ ppc' = "create_knowledge_base"
            /\ results' = results
       ELSE /\ calls' = calls \o FmPolicyCalls \o S3PolicyCalls
            /\ policyDoc' = [policyDoc EXCEPT !["fm_policy"] =
                                IF "fm_policy" \in account THEN @ ELSE "required"]
            /\ policyVersions' = [policyVersions EXCEPT !["fm_policy"] =
                                IF "fm_policy" \in account THEN @ ELSE 1]
            /\ account' = account \cup {"fm_policy"}
            /\ ppc' = "raised"
            /\ results' = Append(results,
                   RunRecord(FALSE, embedding_model, self_, account', kbs, dss,
                             <<>>))
            /\ UNCHANGED <<trust, roleAttached, self_, attempt>>
    /\ UNCHANGED <<run, embedding_model, indexDimension, kbs, dss, nextId,
                   attempts, kbOutcome, dsOutcome>>
    /\ UNCHANGED notProvisionVars

\* The end of a failed attempt of create_knowledge_base: the retry wrapper
\* re-raises after the last allowed attempt, else waits and calls again.
AttemptFailed(outcome) ==
    /\ attempts' = Append(attempts, outcome)
    /\ IF ShouldStop(attempt)
       THEN /\ ppc' = "failed"
            /\ results' = Append(results,
                   RunRecord(FALSE, embedding_model, self_', account, kbs',
                             dss', attempts'))
       ELSE /\ ppc' = "retry_wait"
            /\ results' = results

\* create_knowledge_base, first try block: the create call and its except
\* clauses.
CreateKnowledgeBase(fault) ==
    /\ ppc = "create_knowledge_base"
    /\ dss' = dss
    /\ LET answer == KbCreateAnswer(fault)
           clause == IF answer = "created" THEN "none"
                     ELSE Dispatch(answer, KbCreateClauses)
       IN
         /\ kbOutcome' = IF answer = "created" THEN "created"
                         ELSE IF answer = "ConflictException" THEN "conflict"
                         ELSE "error"
         /\ IF answer = "created"
            THEN /\ calls' = calls \o <<"bedrock.create_knowledge_base">>
                 /\ kbs' = Append(kbs, [id |-> nextId, name |-> kb_name])
                 /\ nextId' = nextId + 1
                 /\ self_' = [self_ EXCEPT !.knowledge_base = nextId]
                 /\ ppc' = "create_data_source"
                 /\ UNCHANGED <<attempts, results>>
            ELSE IF clause = "ConflictException"
            THEN /\ calls' = calls \o <<"bedrock.create_knowledge_base",
                                        "bedrock.list_knowledge_bases",
                                        "bedrock.get_knowledge_base">>
                 /\ self_' = [self_ EXCEPT
                                 !.knowledge_base = MatchByName(kbs, kb_name, 0)]
                 /\ ppc' = "create_data_source"
                 /\ UNCHANGED <<kbs, nextId, attempts, results>>
            ELSE /\ calls' = calls \o <<"bedrock.create_knowledge_base",
                                        "iam.get_role",
                                        "iam.list_attached_role_policies">>
                 /\ self_' = self_
                 /\ UNCHANGED <<kbs, nextId>>
                 /\ AttemptFailed(IF answer = "ConflictException"
                                  THEN "kb_conflict" ELSE "kb_error")
    /\ UNCHANGED <<run, embedding_model, account, indexDimension, policyDoc,
                   policyVersions, trust, roleAttached, attempt, dsOutcome>>
    /\ UNCHANGED notProvisionVars

\* create_knowledge_base, second try block: create_data_source, adoption of
\* the first listed data source on ConflictException, return kb, ds.
CreateDataSource(request) ==
    /\ ppc = "create_data_source"
    /\ kbs' = kbs
    /\ LET kb == self_.knowledge_base
           answer == DsCreateAnswer(request, kb)
           clause == IF answer = "created" THEN "none"
                     ELSE Dispatch(answer, DsCreateClauses)
           made == request \in {"served", "replayed"}
                      /\ DataSourcesOf(dss, kb) = <<>>
       IN
         /\ dss' = IF made THEN Append(dss, [id |-> nextId, kb |-> kb]) ELSE dss
         /\ nextId' = IF made THEN nextId + 1 ELSE nextId
         /\ dsOutcome' = IF answer = "created" THEN "created"
                         ELSE IF answer = "ConflictException" THEN "conflict"
                         ELSE "error"
         /\ IF answer = "created" \/ clause = "ConflictException"
            THEN /\ IF answer = "created"
                    THEN /\ calls' = calls \o <<"bedrock.create_data_source">>
                         /\ self_' = [self_ EXCEPT !.data_source = nextId]
                    ELSE /\ calls' = calls \o <<"bedrock.create_data_source",
                                                "bedrock.list_data_sources",
                                                "bedrock.get_data_source">>
                         /\ self_' = [self_ EXCEPT !.data_source =
                                         AdoptedDataSource(DataSourcesOf(dss', kb))]
                 /\ attempts' = Append(attempts, "ok")
                 /\ ppc' = "constructed"
                 /\ results' = Append(results,
                        RunRecord(TRUE, embedding_model, self_', account, kbs',
                                  dss', attempts'))
            ELSE /\ calls' = calls \o <<"bedrock.create_data_source">>
                 /\ self_' = [self_ EXCEPT !.knowledge_base = 0]
                 /\ AttemptFailed("ds_error")
    /\ UNCHANGED <<run, embedding_model, account, indexDimension, policyDoc,
                   policyVersions, trust, roleAttached, attempt, kbOutcome>>
    /\ UNCHANGED notProvisionVars

\* The retry wrapper between two attempts: the random wait, then the next
\* call of create_knowledge_base.
RetryWait ==
    /\ ppc = "retry_wait"
    /\ attempt' = attempt + 1
    /\ kbOutcome' = "none"
    /\ dsOutcome' = "none"
    /\ calls' = calls \o <<"sleep">>
    /\ ppc' = "create_knowledge_base"
    /\ UNCHANGED <<run, embedding_model, account, indexDimension, policyDoc,
                   policyVersions, trust, roleAttached, kbs, dss, nextId,
                   self_, attempts, results>>
    /\ UNCHANGED notProvisionVars

NextProvision ==
    \/ \E model \in Models : Construct(model)
    \/ CreateS3Bucket
    \/ CreateS3VectorResources
    \/ CreateExecutionRole
    \/ \E fault \in BOOLEAN : CreateKnowledgeBase(fault)
    \/ \E request \in DsRequests : CreateDataSource(request)
    \/ RetryWait

(***************************************************************************)
(* The caller's wait: create_bedrock_knowledge_base after the constructor  *)
(***************************************************************************)

\* max_wait = 120 and the 10-unit sleep of the wait loop.
kb_max_wait == 120
KbPollInterval == 10

\* The statuses of a knowledge base the wait can read: CREATING until the
\* service settles it as ACTIVE or FAILED.
KbStatuses == {"CREATING", "ACTIVE", "FAILED"}

\* while waited < max_wait:
KbLoopContinuesLong(w) == w <= kb_max_wait
KbLoopContinues(w) == w < kb_max_wait

\* if waited >= max_wait: print("Warning: ...")
TimeoutWarning(w) == w >= kb_max_wait

\* The constructor has returned; the knowledge base is in any of its statuses
\* (an adopted one may be settled already).
InitWait ==
    /\ wpc = "loop"
    /\ kb_waited = 0
    /\ kb_status = "none"
    /\ checkedAt = <<>>
    /\ warned = FALSE
    /\ kbState \in KbStatuses

IdleWait ==
    /\ wpc = "off"
    /\ kb_waited = 0
    /\ kb_status = "none"
    /\ checkedAt = <<>>
    /\ warned = FALSE
    /\ kbState = "none"

\* The service settles the knowledge base: CREATING -> ACTIVE | FAILED.
KbSettles(s) ==
    /\ wpc \in {"loop", "sleep"}
    /\ kbState = "CREATING"
    /\ kbState' = s
    /\ UNCHANGED <<wpc, kb_waited, kb_status, checkedAt, warned>>
    /\ UNCHANGED notWaitVars

\* One pass of the loop body up to the sleep: get_knowledge_base, then break
\* on ACTIVE, raise on FAILED; an exception of the call itself (fault) leaves
\* the function, there is no try around it.
WaitCheck(fault) ==
    /\ wpc = "loop"
    /\ KbLoopContinues(kb_waited)
    /\ checkedAt' = Append(checkedAt, kb_waited)
    /\ IF fault
       THEN /\ wpc' = "raised"
            /\ kb_status' = kb_status
       ELSE /\ kb_status' = kbState
            /\ wpc' = IF kbState = "ACTIVE" THEN "after_loop"
                      ELSE IF kbState = "FAILED" THEN "raised"
                      ELSE "sleep"
    /\ UNCHANGED <<kb_waited, warned, kbState>>
    /\ UNCHANGED notWaitVars

\* time.sleep(10); waited += 10
WaitSleep ==
    /\ wpc = "sleep"
    /\ kb_waited' = kb_waited + KbPollInterval
    /\ wpc' = "loop"
    /\ UNCHANGED <<kb_status, checkedAt, warned, kbState>>
    /\ UNCHANGED notWaitVars

\* The while condition is false: the loop is left without a break.
WaitExhausted ==
    /\ wpc = "loop"
    /\ ~KbLoopContinues(kb_waited)
    /\ wpc' = "after_loop"
    /\ UNCHANGED <<kb_waited, kb_status, checkedAt, warned, kbState>>
    /\ UNCHANGED notWaitVars

\* After the loop: the warning when the bound was used up, return
\* knowledge_base.
WaitReturn ==
    /\ wpc = "after_loop"
    /\ warned' = TimeoutWarning(kb_waited)
    /\ wpc' = "returned"
    /\ UNCHANGED <<kb_waited, kb_status, checkedAt, kbState>>
    /\ UNCHANGED notWaitVars

NextWait ==
    \/ \E s \in {"ACTIVE", "FAILED"} : KbSettles(s)
    \/ \E fault \in BOOLEAN : WaitCheck(fault)
    \/ WaitSleep
    \/ WaitExhausted
    \/ WaitReturn

(***************************************************************************)
(* Bulk job mode: BedrockKnowledgeBase.start_ingestion_job                 *)
(***************************************************************************)

\* Largest number of get_ingestion_job calls explored.
MaxPolls == 8

\* The statuses of an ingestion job.
JobStatuses == {"STARTING", "IN_PROGRESS", "COMPLETE", "FAILED"}

\* The steps of the job in the service: STARTING -> IN_PROGRESS ->
\* COMPLETE | FAILED.
JobStep(from, to) ==
    \/ from = "STARTING" /\ to = "IN_PROGRESS"
    \/ from = "IN_PROGRESS" /\ to \in {"COMPLETE", "FAILED"}

\* while job['status'] != 'COMPLETE':
JobLoopContinues(status) == status # "COMPLETE"

\* Where the function is after a response with the given status.
AfterJobResponse(status) == IF JobLoopContinues(status) THEN "poll" ELSE "sleep"

InitJob ==
    /\ jpc = "start"
    /\ job_status = "none"
    /\ polls = 0
    /\ jobState = "none"

IdleJob ==
    /\ jpc = "off"
    /\ job_status = "none"
    /\ polls = 0
    /\ jobState = "none"

\* start_ingestion_job(...): job = start_job_response["ingestionJob"]; the
\* call has no try around it.
StartJob(fault) ==
    /\ jpc = "start"
    /\ IF fault
       THEN /\ jpc' = "raised"
            /\ UNCHANGED <<job_status, jobState>>
       ELSE /\ jobState' = "STARTING"
            /\ job_status' = "STARTING"
            /\ jpc' = AfterJobResponse("STARTING")
    /\ UNCHANGED polls
    /\ UNCHANGED notJobVars

\* The service moves the job on.
JobAdvances(to) ==
    /\ jpc = "poll"
    /\ JobStep(jobState, to)
    /\ jobState' = to
    /\ UNCHANGED <<jpc, job_status, polls>>
    /\ UNCHANGED notJobVars

\* One pass of the while loop: get_ingestion_job, job = the response, then
\* the loop condition again; no sleep between two passes.
GetJob(fault) ==
    /\ jpc = "poll"
    /\ polls < MaxPolls
    /\ polls' = polls + 1
    /\ IF fault
       THEN /\ jpc' = "raised"
            /\ job_status' = job_status
       ELSE /\ job_status' = jobState
            /\ jpc' = AfterJobResponse(jobState)
    /\ UNCHANGED jobState
    /\ UNCHANGED notJobVars

\* pp.pprint(job); interactive_sleep(40)
JobReturn ==
    /\ jpc = "sleep"
    /\ jpc' = "returned"
    /\ UNCHANGED <<job_status, polls, jobState>>
    /\ UNCHANGED notJobVars

NextJob ==
    \/ \E fault \in BOOLEAN : StartJob(fault)
    \/ \E to \in JobStatuses : JobAdvances(to)
    \/ \E fault \in BOOLEAN : GetJob(fault)
    \/ JobReturn

(***************************************************************************)
(* main: reuse or creation of the knowledge base, then ingestion           *)
(***************************************************************************)

\* Largest number of data sources of one knowledge base explored.
MaxSources == 2

\* The name main gave the knowledge base in an earlier run, and the name it
\* would give now: f'pets-kb-s3vectordb-{random_suffix}' with a new suffix.
PetsKbName == "pets-kb-s3vectordb-1a2b3c4d"
NewKbName == "pets-kb-s3vectordb-9f8e7d6c"

\* The knowledge bases an account may hold when main starts: none, the one
\* of an earlier run, one made for another purpose, or both, in either
\* listing order (names are unique in an account).
AccountListings ==
    LET pets == [id |-> 1, name |-> PetsKbName]
        other == [id |-> 2, name |-> OtherKbName]
    IN {<<>>, <<pets>>, <<other>>, <<pets, other>>, <<other, pets>>}

\* The data sources of the account when knowledge base kb holds count[kb] of
\* them.
RECURSIVE SourcesFor(_, _)
SourcesFor(listing, count) ==
    IF listing = <<>> THEN <<>>
    ELSE LET kb == Head(listing).id
         IN [j \in 1..count[kb] |-> [id |-> 10 * kb + j, kb |-> kb]]
                \o SourcesFor(Tail(listing), count)

\* knowledge_bases[0]['knowledgeBaseId']
FirstListed(listing) == listing[1].id

InitMain ==
    /\ mpc = "list_knowledge_bases"
    /\ acctKbs \in AccountListings
    /\ \E count \in [1..2 -> 0..MaxSources] :
          acctDss = SourcesFor(acctKbs, count)
    /\ knowledge_base_id = 0
    /\ data_source_id = 0
    /\ created = FALSE
    /\ ingestedInto = <<>>

IdleMain ==
    /\ mpc = "off"
    /\ acctKbs = <<>>
    /\ acctDss = <<>>
    /\ knowledge_base_id = 0
    /\ data_source_id = 0
    /\ created = FALSE
    /\ ingestedInto = <<>>

\* response = bedrock_agent_client.list_knowledge_bases(); the branch on
\* len(knowledge_bases); in the else branch the first listed knowledge base
\* is taken.
MainListKnowledgeBases(fault) ==
    /\ mpc = "list_knowledge_bases"
    /\ IF fault
       THEN /\ mpc' = "raised"
            /\ knowledge_base_id' = knowledge_base_id
       ELSE IF Len(acctKbs) = 0
       THEN /\ mpc' = "create_bedrock_knowledge_base"
            /\ knowledge_base_id' = knowledge_base_id
       ELSE /\ mpc' = "list_data_sources"
            /\ knowledge_base_id' = FirstListed(acctKbs)
    /\ UNCHANGED <<acctKbs, acctDss, data_source_id, created, ingestedInto>>
    /\ UNCHANGED notMainVars

\* knowledge_base = create_bedrock_knowledge_base(name = ..., ...): the
\* constructor and the wait; it returns the new knowledge base with its data
\* source, or raises (fault).
MainCreate(fault) ==
    /\ mpc = "create_bedrock_knowledge_base"
    /\ created' = TRUE
    /\ IF fault
       THEN /\ mpc' = "raised"
            /\ UNCHANGED <<acctKbs, acctDss, knowledge_base_id, data_source_id>>
       ELSE /\ acctKbs' = Append(acctKbs, [id |-> 3, name |-> NewKbName])
            /\ acctDss' = Append(acctDss, [id |-> 31, kb |-> 3])
            /\ knowledge_base_id' = 3
            /\ data_source_id' = 31
            /\ mpc' = "prepare"
    /\ UNCHANGED ingestedInto
    /\ UNCHANGED notMainVars

\* list_data_sources(knowledgeBaseId=knowledge_base_id): the first listed
\* data source, or the error message and return when there is none.
MainListDataSources(fault) ==
    /\ mpc = "list_data_sources"
    /\ LET data_source_ids == DataSourcesOf(acctDss, knowledge_base_id) IN
         IF fault
         THEN /\ mpc' = "raised"
              /\ data_source_id' = data_source_id
         ELSE IF Len(data_source_ids) > 0
         THEN /\ mpc' = "prepare"
              /\ data_source_id' = data_source_ids[1]
         ELSE /\ mpc' = "returned"
              /\ data_source_id' = data_source_id
    /\ UNCHANGED <<acctKbs, acctDss, knowledge_base_id, created, ingestedInto>>
    /\ UNCHANGED notMainVars

\* time.sleep(10), get_knowledge_base, troubleshoot_kb_setup (which catches
\* its own errors).
MainPrepare(fault) ==
    /\ mpc = "prepare"
    /\ mpc' = IF fault THEN "raised" ELSE "ingest"
    /\ UNCHANGED <<acctKbs, acctDss, knowledge_base_id, data_source_id,
                   created, ingestedInto>>
    /\ UNCHANGED notMainVars

\* ingest_knowledge_base_documents(knowledge_base_id = ..., data_source_id
\* = ..., ...)
MainIngest ==
    /\ mpc = "ingest"
    /\ ingestedInto' = <<knowledge_base_id, data_source_id>>
    /\ mpc' = "done"
    /\ UNCHANGED <<acctKbs, acctDss, knowledge_base_id, data_source_id, created>>
    /\ UNCHANGED notMainVars

NextMain ==
    \/ \E fault \in BOOLEAN : MainListKnowledgeBases(fault)
    \/ \E fault \in BOOLEAN : MainCreate(fault)
    \/ \E fault \in BOOLEAN : MainListDataSources(fault)
    \/ \E fault \in BOOLEAN : MainPrepare(fault)
    \/ MainIngest

(***************************************************************************)
(* Repeated calls of create_bedrock_kb_execution_role with the same names  *)
(***************************************************************************)

\* Number of calls of the method explored.
MaxRoleCalls == 6

IamNames == {"fm_policy", "s3_policy", "role"}

\* The method is called on an object whose bucket and vector store exist;
\* the account may already hold any of the two policies and the role, with
\* any document: left by an earlier run or made by other means.
InitRole ==
    /\ roleCalls = 1
    /\ run = 1
    /\ ppc = "create_bedrock_kb_execution_role"
    /\ embedding_model = "amazon.titan-embed-text-v2:0"
    /\ calls = <<>>
    /\ indexDimension = dimension
    /\ \E existing \in SUBSET IamNames :
          /\ account = {"bucket", "vector_bucket", "vector_index"} \cup existing
          /\ policyDoc \in [{"fm_policy", "s3_policy"} -> {"absent", "stale", "required"}]
          /\ \A p \in {"fm_policy", "s3_policy"} :
                policyDoc[p] = "absent" <=> p \notin existing
          /\ policyVersions = [p \in {"fm_policy", "s3_policy"} |->
                                  IF p \in existing THEN 1 ELSE 0]
          /\ trust \in IF "role" \in existing THEN {"stale", "required"}
                       ELSE {"absent"}
          /\ roleAttached \in IF "role" \in existing
                              THEN SUBSET (existing \ {"role"}) ELSE {{}}
    /\ trustBefore = trust
    /\ kbs = <<>>
    /\ dss = <<>>
    /\ nextId = 1
    /\ self_ = [Unset EXCEPT !.vector_bucket_arn = "arn:vector_bucket",
                             !.vector_index_arn = "arn:vector_index"]
    /\ attempt = 0
    /\ attempts = <<>>
    /\ kbOutcome = "none"
    /\ dsOutcome = "none"
    /\ results = <<>>

IdleRole == roleCalls = 0 /\ trustBefore = "absent"

\* The method has returned and is called again, with the same names.
CallRoleBuilder ==
    /\ ppc = "create_knowledge_base"
    /\ roleCalls < MaxRoleCalls
    /\ roleCalls' = roleCalls + 1
    /\ trustBefore' = trust
    /\ ppc' = "create_bedrock_kb_execution_role"
    /\ calls' = <<>>
    /\ UNCHANGED <<run, embedding_model, account, indexDimension, policyDoc,
                   policyVersions, trust, roleAttached, kbs, dss, nextId,
                   self_, attempt, attempts, kbOutcome, dsOutcome,
                   results>>
    /\ UNCHANGED <<ingestVars, tearVars, waitVars, jobVars, mainVars, raceVars>>

NextRole ==
    \/ CreateExecutionRole
    \/ CallRoleBuilder

(***************************************************************************)
(* Concurrent constructors: steps 1 and 2 of __init__ (create_s3_bucket and  *)
(* create_s3_vector_resources) run by several invocations with the same      *)
(* names against one account. Each cloud call is one atomic step at the      *)
(* service; the invocations interleave between calls.                        *)
(***************************************************************************)

\* Number of concurrent invocations explored.
Invocations == 2
Procs == 1..Invocations

\* The resource found in the account before any invocation ran.
Preexisting == 0

\* self.region_name: the code sends create_bucket without a
\* LocationConstraint in us-east-1 and with one elsewhere.
Regions == {"us-east-1", "eu-west-1"}

\* head_bucket: answers when the bucket exists, raises ClientError (404) when
\* it does not, or a ClientError of another kind when the call fails.
HeadBucketAnswer(fault) ==
    IF fault THEN "ClientError"
    ELSE IF dataBuckets # {} THEN "found"
    ELSE "NoSuchBucket"

\* except ClientError: every ClientError of head_bucket, not-found or not,
\* leads to the create call.
AfterHeadBucket(answer) ==
    IF answer = "found" THEN "create_vector_bucket" ELSE "create_bucket"

\* create_bucket at the service: a name that is free is created; a name the
\* caller already owns is refused with BucketAlreadyOwnedByYou, except in
\* us-east-1 where the request is answered 200 and changes nothing.
CreateBucketAnswer(region, fault) ==
    IF fault THEN "ClientError"
    ELSE IF dataBuckets = {} THEN "created"
    ELSE IF region = "us-east-1" THEN "ok"
    ELSE "BucketAlreadyOwnedByYou"

\* create_bucket is called inside the except clause with no handler of its
\* own: whatever it raises leaves create_s3_bucket and the constructor.
AfterCreateBucketAdopting(answer) ==
    IF answer \in {"created", "ok", "BucketAlreadyOwnedByYou"}
    THEN "create_vector_bucket" ELSE "raised"
AfterCreateBucket(answer) ==
    IF answer \in {"created", "ok"} THEN "create_vector_bucket" ELSE "raised"

\* The except clauses after create_vector_bucket and after create_index.
VectorBucketClausesNone == <<>>
VectorBucketClauses == <<"ConflictException">>
VectorIndexClauses == <<"ConflictException">>

\* create_vector_bucket / create_index at the service: the name is created
\* when free, refused with ConflictException when taken.
CreateNamedAnswer(existing, fault) ==
    IF fault THEN "ServiceException"
    ELSE IF existing = {} THEN "created"
    ELSE "ConflictException"

\* get_vector_bucket / get_index at the service.
GetNamedAnswer(existing, fault) ==
    IF fault THEN "ServiceException"
    ELSE IF existing = {} THEN "NotFoundException"
    ELSE "found"

\* response['vectorBucketArn'] / response['indexArn'] of a get call: the ARN
\* of the resource of that name.
ArnOf(existing) == CHOOSE a \in existing : TRUE

Unresolved == -1

InitRace ==
    /\ region_name \in Regions
    /\ rpc = [p \in Procs |-> "head_bucket"]
    /\ headAnswer = [p \in Procs |-> "none"]
    /\ createAnswer = [p \in Procs |-> "none"]
    /\ raisedWith = [p \in Procs |-> "none"]
    /\ dataBuckets \in {{}, {Preexisting}}
    /\ vectorBuckets \in {{}, {Preexisting}}
    /\ vectorIndexes \in {{}, {Preexisting}}
    /\ vectorIndexes # {} => vectorBuckets # {}
    /\ vector_bucket_arn = [p \in Procs |-> Unresolved]
    /\ vector_index_arn = [p \in Procs |-> Unresolved]

IdleRace ==
    /\ region_name = "us-east-1"
    /\ rpc = <<>>
    /\ headAnswer = <<>>
    /\ createAnswer = <<>>
    /\ raisedWith = <<>>
    /\ dataBuckets = {}
    /\ vectorBuckets = {}
    /\ vectorIndexes = {}
    /\ vector_bucket_arn = <<>>
    /\ vector_index_arn = <<>>

\* create_s3_bucket: self.s3_client.head_bucket(Bucket=self.bucket_name)
HeadBucket(p, fault) ==
    /\ rpc[p] = "head_bucket"
    /\ LET answer == HeadBucketAnswer(fault) IN
         /\ headAnswer' = [headAnswer EXCEPT ![p] = answer]
         /\ rpc' = [rpc EXCEPT ![p] = AfterHeadBucket(answer)]
    /\ UNCHANGED <<region_name, createAnswer, raisedWith, dataBuckets,
                   vectorBuckets, vectorIndexes, vector_bucket_arn,
                   vector_index_arn>>
    /\ UNCHANGED notRaceVars

\* create_s3_bucket: self.s3_client.create_bucket(...) in the except clause
CreateBucket(p, fault) ==
    /\ rpc[p] = "create_bucket"
    /\ LET answer == CreateBucketAnswer(region_name, fault)
           next == AfterCreateBucket(answer) IN
         /\ createAnswer' = [createAnswer EXCEPT ![p] = answer]
         /\ dataBuckets' = IF answer = "created" THEN dataBuckets \cup {p}
                           ELSE dataBuckets
         /\ rpc' = [rpc EXCEPT ![p] = next]
         /\ raisedWith' = IF next = "raised"
                          THEN [raisedWith EXCEPT ![p] = answer]
                          ELSE raisedWith
    /\ UNCHANGED <<region_name, headAnswer, vectorBuckets, vectorIndexes,
                   vector_bucket_arn, vector_index_arn>>
    /\ UNCHANGED notRaceVars

\* create_s3_vector_resources: create_vector_bucket(vectorBucketName=...)
CreateVectorBucket(p, fault) ==
    /\ rpc[p] = "create_vector_bucket"
    /\ LET answer == CreateNamedAnswer(vectorBuckets, fault) IN
         IF answer = "created"
         THEN /\ vectorBuckets' = vectorBuckets \cup {p}
              /\ vector_bucket_arn' = [vector_bucket_arn EXCEPT ![p] = p]
              /\ rpc' = [rpc EXCEPT ![p] = "create_index"]
              /\ raisedWith' = raisedWith
         ELSE IF Dispatch(answer, VectorBucketClauses) = "ConflictException"
         THEN /\ rpc' = [rpc EXCEPT ![p] = "get_vector_bucket"]
              /\ UNCHANGED <<vectorBuckets, vector_bucket_arn, raisedWith>>
         ELSE /\ rpc' = [rpc EXCEPT ![p] = "raised"]
              /\ raisedWith' = [raisedWith EXCEPT ![p] = answer]
              /\ UNCHANGED <<vectorBuckets, vector_bucket_arn>>
    /\ UNCHANGED <<region_name, headAnswer, createAnswer, dataBuckets,
                   vectorIndexes, vector_index_arn>>
    /\ UNCHANGED notRaceVars

\* create_s3_vector_resources: get_vector_bucket(...) in the except clause
GetVectorBucket(p, fault) ==
    /\ rpc[p] = "get_vector_bucket"
    /\ LET answer == GetNamedAnswer(vectorBuckets, fault) IN
         IF answer = "found"
         THEN /\ vector_bucket_arn' =
                    [vector_bucket_arn EXCEPT ![p] = ArnOf(vectorBuckets)]
              /\ rpc' = [rpc EXCEPT ![p] = "create_index"]
              /\ raisedWith' = raisedWith
         ELSE /\ rpc' = [rpc EXCEPT ![p] = "raised"]
              /\ raisedWith' = [raisedWith EXCEPT ![p] = answer]
              /\ vector_bucket_arn' = vector_bucket_arn
    /\ UNCHANGED <<region_name, headAnswer, createAnswer, dataBuckets,
                   vectorBuckets, vectorIndexes, vector_index_arn>>
    /\ UNCHANGED notRaceVars

\* create_s3_vector_resources: create_index(vectorBucketName=..., indexName=...)
CreateIndex(p, fault) ==
    /\ rpc[p] = "create_index"
    /\ LET answer == CreateNamedAnswer(vectorIndexes, fault) IN
         IF answer = "created"
         THEN /\ vectorIndexes' = vectorIndexes \cup {p}
              /\ vector_index_arn' = [vector_index_arn EXCEPT ![p] = p]
              /\ rpc' = [rpc EXCEPT ![p] = "returned"]
              /\ raisedWith' = raisedWith
         ELSE IF Dispatch(answer, VectorIndexClauses) = "ConflictException"
         THEN /\ rpc' = [rpc EXCEPT ![p] = "get_index"]
              /\ UNCHANGED <<vectorIndexes, vector_index_arn, raisedWith>>
         ELSE /\ rpc' = [rpc EXCEPT ![p] = "raised"]
              /\ raisedWith' = [raisedWith EXCEPT ![p] = answer]
              /\ UNCHANGED <<vectorIndexes, vector_index_arn>>
    /\ UNCHANGED <<region_name, headAnswer, createAnswer, dataBuckets,
                   vectorBuckets, vector_bucket_arn>>
    /\ UNCHANGED notRaceVars

\* create_s3_vector_resources: get_index(...) in the except clause, then the
\* return of the names and ARNs
GetIndex(p, fault) ==
    /\ rpc[p] = "get_index"
    /\ LET answer == GetNamedAnswer(vectorIndexes, fault) IN
         IF answer = "found"
         THEN /\ vector_index_arn' =
                    [vector_index_arn EXCEPT ![p] = ArnOf(vectorIndexes)]
              /\ rpc' = [rpc EXCEPT ![p] = "returned"]
              /\ raisedWith' = raisedWith
         ELSE /\ rpc' = [rpc EXCEPT ![p] = "raised"]
              /\ raisedWith' = [raisedWith EXCEPT ![p] = answer]
              /\ vector_index_arn' = vector_index_arn
    /\ UNCHANGED <<region_name, headAnswer, createAnswer, dataBuckets,
                   vectorBuckets, vectorIndexes, vector_bucket_arn>>
    /\ UNCHANGED notRaceVars

NextRace ==
    \/ \E p \in Procs, fault \in BOOLEAN : HeadBucket(p, fault)
    \/ \E p \in Procs, fault \in BOOLEAN : CreateBucket(p, fault)
    \/ \E p \in Procs, fault \in BOOLEAN : CreateVectorBucket(p, fault)
    \/ \E p \in Procs, fault \in BOOLEAN : GetVectorBucket(p, fault)
    \/ \E p \in Procs, fault \in BOOLEAN : CreateIndex(p, fault)
    \/ \E p \in Procs, fault \in BOOLEAN : GetIndex(p, fault)

InitIngestOnly ==
    InitIngest /\ IdleTeardown /\ IdleProvision /\ IdleWait /\ IdleJob
        /\ IdleMain /\ IdleRole /\ IdleRace
SpecIngest == InitIngestOnly /\ [][NextIngest]_vars

InitTeardownOnly ==
    InitTeardown /\ IdleIngest /\ IdleProvision /\ IdleWait /\ IdleJob
        /\ IdleMain /\ IdleRole /\ IdleRace
SpecTeardown == InitTeardownOnly /\ [][NextTeardown]_vars

InitProvisionOnly ==
    InitProvision /\ IdleIngest /\ IdleTeardown /\ IdleWait /\ IdleJob
        /\ IdleMain /\ IdleRole /\ IdleRace
SpecProvision == InitProvisionOnly /\ [][NextProvision]_vars

InitWaitOnly ==
    InitWait /\ IdleIngest /\ IdleTeardown /\ IdleProvision /\ IdleJob
        /\ IdleMain /\ IdleRole /\ IdleRace
SpecWait == InitWaitOnly /\ [][NextWait]_vars

InitJobOnly ==
    InitJob /\ IdleIngest /\ IdleTeardown /\ IdleProvision /\ IdleWait
        /\ IdleMain /\ IdleRole /\ IdleRace
SpecJob == InitJobOnly /\ [][NextJob]_vars

InitMainOnly ==
    InitMain /\ IdleIngest /\ IdleTeardown /\ IdleProvision /\ IdleWait
        /\ IdleJob /\ IdleRole /\ IdleRace
SpecMain == InitMainOnly /\ [][NextMain]_vars

InitRoleOnly ==
    InitRole /\ IdleIngest /\ IdleTeardown /\ IdleWait /\ IdleJob /\ IdleMain
        /\ IdleRace
SpecRole == InitRoleOnly /\ [][NextRole]_vars

InitRaceOnly ==
    InitRace /\ IdleIngest /\ IdleTeardown /\ IdleProvision /\ IdleWait
        /\ IdleJob /\ IdleMain /\ IdleRole
SpecRace == InitRaceOnly /\ [][NextRace]_vars

(***************************************************************************)
(* Claims                                                                  *)
(***************************************************************************)

\* C1 as stated: when the constructor has run twice with the same names and
\* an accepted embedding model, the first run succeeded and the service
\* failed no call of the second, the second run succeeds too, ends with the
\* same identifier in every field, and leaves the account with the same
\* resources (nothing created a second time).
C1_Idempotent ==
    (/\ Len(results) >= 2
     /\ results[1].ok
     /\ results[2].model \in valid_embedding_models
     /\ ~results[2].faulted)
        => /\ results[2].ok
           /\ results[2].fields = results[1].fields
           /\ results[2].account = results[1].account
           /\ results[2].kbs = results[1].kbs
           /\ results[2].dss = results[1].dss

\* C2 as stated: an attempt whose create-knowledge-base call was answered
\* with the conflict signal is not failed by it: it holds the existing
\* knowledge base of name kb_name and is at, or past, the data-source step
\* (or it was failed later, by the data-source call).
C2_ConflictAdopted ==
    kbOutcome = "conflict" =>
        \/ /\ ppc \in {"create_data_source", "constructed"}
           /\ \E i \in 1..Len(kbs) :
                 kbs[i].name = kb_name /\ self_.knowledge_base = kbs[i].id
        \/ /\ ppc \in {"retry_wait", "failed"}
           /\ attempts[Len(attempts)] = "ds_error"

\* ingest_single_document has returned for the current document.
Returned == idx > 0 /\ ipc \in {"returned", "loop", "done"}

\* C3: in a batch where document k is the first to fail, no ingest call is
\* issued for the documents after k, the loop is left at once, and the
\* function returns success_count = k-1 and fail_count = 1.
C3_FailFast ==
    \A k \in 1..nFiles :
        (ret[k] = "False" /\ \A e \in 1..(k - 1) : ret[e] # "False") =>
            /\ submitted \subseteq 1..k
            /\ idx = k
            /\ ipc \in {"returned", "done"}
            /\ (ipc = "done" => success_count = k - 1 /\ fail_count = 1)

\* C3 witness: a batch of three whose second document was polled FAILED; the
\* function has returned and the third document was never submitted.
C3_Witness ==
    /\ nFiles = 3 /\ ipc = "done" /\ idx = 2 /\ sawFailed
    /\ ret[1] = "True" /\ ret[2] = "False" /\ ret[3] = "none"
    /\ success_count = 1 /\ fail_count = 1 /\ submitted = {1, 2}

\* C4: a document for which a poll returned FAILED, or whose polls reached
\* the end of the 60-unit window without a terminal status, is reported
\* False, and the batch stops: no later document is submitted and the loop is
\* not resumed.
C4_FailedOrTimeoutAborts ==
    (idx > 0 /\ ipc # "submit"
        /\ (sawFailed \/ (waited >= max_wait /\ ~sawIndexed))) =>
            /\ ret[idx] = "False"
            /\ ipc \in {"returned", "done"}
            /\ submitted \subseteq 1..idx
            /\ (ipc = "done" => fail_count = 1 /\ success_count = idx - 1)

\* C4 witness: the second of three documents used up the whole window
\* without a terminal status; the batch ended with the third never submitted.
C4_Witness ==
    /\ nFiles = 3 /\ idx = 2 /\ ipc = "done"
    /\ waited = max_wait /\ ~sawFailed /\ ~sawIndexed /\ ~submitRaised
    /\ ret[2] = "False" /\ 3 \notin submitted

\* C5: a document for which a poll inside the window returned INDEXED makes
\* ingest_single_document stop polling and return True; success_count is
\* incremented and the batch loop is not aborted (it ends only after the last
\* document).
C5_IndexedSucceeds ==
    sawIndexed =>
        /\ ret[idx] = "True"
        /\ ipc \in {"returned", "loop", "done"}
        /\ (ipc # "returned" => success_count = idx /\ fail_count = 0)
        /\ (ipc = "done" => idx = nFiles)

\* C5 witness: a document polled INDEXED after an earlier non-terminal poll
\* has been counted and the loop is about to take the next document.
C5_Witness ==
    /\ sawIndexed /\ ipc = "loop" /\ idx < nFiles
    /\ waited > PollInterval /\ success_count = idx /\ ret[idx] = "True"

C7_BoundedRetry ==
    /\ attempt <= stop_max_attempt_number
    /\ Len(attempts) <= stop_max_attempt_number
    /\ ppc = "failed" =>
          /\ Len(attempts) = stop_max_attempt_number
          /\ \A i \in 1..Len(attempts) : attempts[i] # "ok"
    /\ ppc = "retry_wait" =>
          /\ Len(attempts) = attempt
          /\ attempt < stop_max_attempt_number
          /\ attempts[attempt] # "ok"
    /\ (attempts # <<>> /\ attempts[Len(attempts)] = "ok") =>
          /\ ppc = "constructed"
          /\ \A i \in 1..(Len(attempts) - 1) : attempts[i] # "ok"
          /\ self_.knowledge_base # 0
          /\ self_.data_source # 0
          /\ results[Len(results)].ok
          /\ results[Len(results)].fields = self_

\* C7 witness: six transient failures of the create call, then the seventh
\* attempt created the knowledge base and the data source.
C7_Witness ==
    /\ ppc = "constructed"
    /\ Len(attempts) = stop_max_attempt_number
    /\ \A i \in 1..(stop_max_attempt_number - 1) : attempts[i] = "kb_error"
    /\ attempts[stop_max_attempt_number] = "ok"
    /\ self_.knowledge_base # 0 /\ self_.data_source # 0

\* Positions of the teardown log holding a call of the given operations.
Issued(ops) == {i \in 1..Len(tlog) : tlog[i].op \in ops}
Completed(ops) == {i \in Issued(ops) : tlog[i].ok}

\* C8: in every run of delete_kb, whatever the flags: the knowledge-base
\* delete is issued only after the data-source delete completed; the bucket
\* delete is issued only after the for loop deleted every listed object, and
\* no object delete follows it; a policy delete or the role delete is issued
\* only after both detachments completed.
C8_TeardownOrder ==
    /\ \A i \in Issued({"delete_knowledge_base"}) :
          \E j \in Completed({"delete_data_source"}) : j < i
    /\ \A i \in Issued({"delete_bucket"}) :
          /\ pending = <<>>
          /\ \E j \in Completed({"list_objects"}) : j < i
          /\ \A j \in Issued({"delete_object"}) : j < i /\ tlog[j].ok
    /\ \A i \in Issued({"delete_s3_policy", "delete_fm_policy", "delete_role"}) :
          /\ \E j \in Completed({"detach_s3_policy"}) : j < i
          /\ \E j \in Completed({"detach_fm_policy"}) : j < i

\* C8 witness: a full teardown with both flags of a bucket holding at least
\* two objects has returned.
C8_Witness ==
    /\ tpc = "returned" /\ delete_s3_bucket /\ delete_iam_roles_and_policies
    /\ \E i \in Completed({"delete_object"}) : tlog[i].key = 2
    /\ Completed({"delete_bucket"}) # {}
    /\ Completed({"delete_fm_policy"}) # {}

\* C9: a failed data-source delete or knowledge-base delete is the last call
\* of delete_kb: the error propagates and nothing after it (the
\* knowledge-base delete, the storage cascade, the IAM cascade) is attempted.
C9_MandatoryFatal ==
    /\ \A i \in Issued({"delete_data_source", "delete_knowledge_base"}) :
          ~tlog[i].ok => (Len(tlog) = i /\ tpc = "raised")
    /\ \A i \in Issued({"delete_data_source"}) : i = 1
    /\ \A i \in Issued({"delete_knowledge_base"}) : i = 2

\* C9 witness: with both flags set the knowledge-base delete failed after a
\* successful data-source delete, and delete_kb raised.
C9_Witness ==
    /\ delete_s3_bucket /\ delete_iam_roles_and_policies /\ tpc = "raised"
    /\ Len(tlog) = 2 /\ tlog[1].ok /\ ~tlog[2].ok

\* C10 as stated: with both flags set, a failure of the storage deletion does
\* not keep the IAM steps from being attempted: when delete_kb has ended
\* after a failed storage call, the first IAM call was issued.
C10_OptionalIndependent ==
    (/\ delete_s3_bucket /\ delete_iam_roles_and_policies
     /\ tpc \in {"returned", "raised"}
     /\ \E i \in Issued({"list_objects", "delete_object", "delete_bucket"}) :
            ~tlog[i].ok)
        => Issued({"detach_s3_policy"}) # {}

\* The calls of a full teardown in the order of the code: delete_kb's two
\* deletes, delete_s3, then delete_iam_roles_and_policies.
TeardownSequence ==
    <<"delete_data_source", "delete_knowledge_base", "list_objects",
      "delete_object", "delete_bucket", "detach_s3_policy",
      "detach_fm_policy", "delete_role", "delete_s3_policy",
      "delete_fm_policy">>
PlaceOf(op) == CHOOSE n \in 1..Len(TeardownSequence) : TeardownSequence[n] = op

\* C11 as stated: in a full teardown the role is the last resource deleted:
\* no policy delete is issued after the role delete, and when delete_kb has
\* returned the last call of the log is the role delete.
C11_RoleDeletedLast ==
    (delete_s3_bucket /\ delete_iam_roles_and_policies) =>
        /\ \A i \in Issued({"delete_role"}) :
              \A j \in Issued({"delete_s3_policy", "delete_fm_policy"}) : j < i
        /\ tpc = "returned" => tlog[Len(tlog)].op = "delete_role"

\* C11 amended: in a full teardown the calls are issued in the order data
\* source, knowledge base, listing and deletion of the objects, bucket,
\* detachment of the storage policy, detachment of the foundation-model
\* policy, deletion of the role, and only then deletion of the storage policy
\* and of the foundation-model policy: the role is deleted before the two
\* policies, and the foundation-model policy is the last resource deleted.
C11_FullTeardownOrder ==
    (delete_s3_bucket /\ delete_iam_roles_and_policies) =>
        /\ \A i, j \in 1..Len(tlog) :
              i < j =>
                 \/ PlaceOf(tlog[i].op) < PlaceOf(tlog[j].op)
                 \/ tlog[i].op = "delete_object" /\ tlog[j].op = "delete_object"
        /\ \A i \in 1..Len(tlog) : ~tlog[i].ok => (i = Len(tlog) /\ tpc = "raised")
        /\ tpc = "returned" =>
              /\ \A n \in 1..Len(TeardownSequence) :
                    (TeardownSequence[n] # "delete_object") =>
                        Cardinality(Completed({TeardownSequence[n]})) = 1
              /\ tlog[Len(tlog)].op = "delete_fm_policy"
              /\ \A i \in Issued({"delete_role"}) :
                    \A j \in Issued({"delete_s3_policy", "delete_fm_policy"}) : i < j
              /\ present = {} /\ objects = {} /\ attached = {}

\* C11 witness: a full teardown of a bucket holding objects has returned with
\* the role deleted before the two policies.
C11_Witness ==
    /\ delete_s3_bucket /\ delete_iam_roles_and_policies /\ tpc = "returned"
    /\ Completed({"delete_object"}) # {}
    /\ \E i \in Completed({"delete_role"}) :
          \E j \in Completed({"delete_s3_policy"}) :
             \E k \in Completed({"delete_fm_policy"}) : i < j /\ j < k

\* C12 as stated: a constructor call with an embedding model outside the
\* allow-list is rejected before any cloud call is made and before any
\* resource is created or modified: the rejected run has issued no call, and
\* the account is as the run before left it.
C12_RejectedBeforeAnyCall ==
    (run > 0 /\ embedding_model \notin valid_embedding_models) =>
        /\ ppc = "rejected"
        /\ calls = <<>>
        /\ ~results[Len(results)].ok
        /\ Len(results) >= 2 =>
              /\ results[Len(results)].account = results[Len(results) - 1].account
              /\ results[Len(results)].kbs = results[Len(results) - 1].kbs
              /\ results[Len(results)].dss = results[Len(results) - 1].dss

\* C13: the wait of create_bedrock_knowledge_base makes at most 12 status
\* checks, the k-th after 10*(k-1) units of sleep; a check that reads ACTIVE
\* ends the wait with the knowledge base returned and no timeout warning; a
\* check that reads FAILED ends it with a raised error; when the 120 units
\* are used up without either, the warning is printed and the knowledge base
\* is returned all the same.
C13_BoundedThreeWayWait ==
    /\ Len(checkedAt) <= 12
    /\ \A k \in 1..Len(checkedAt) : checkedAt[k] = 10 * (k - 1)
    /\ kb_waited <= 120
    /\ kb_status = "ACTIVE" =>
          /\ wpc \in {"after_loop", "returned"}
          /\ ~warned
          /\ kb_waited < 120
    /\ kb_status = "FAILED" => (wpc = "raised" /\ ~warned)
    /\ (wpc \in {"after_loop", "returned"} /\ kb_status # "ACTIVE") =>
          /\ kb_waited = 120
          /\ Len(checkedAt) = 12
          /\ wpc = "returned" => warned
    /\ warned => (wpc = "returned" /\ kb_status \notin {"ACTIVE", "FAILED"})

\* C13 witness: twelve checks read CREATING, the bound was used up, the
\* warning was printed and the function returned.
C13_Witness ==
    /\ wpc = "returned" /\ warned /\ kb_status = "CREATING"
    /\ Len(checkedAt) = 12 /\ kb_waited = 120

\* C14 as stated: the poll loop of start_ingestion_job ends whenever the job
\* has reached a terminal status: once a response carried COMPLETE or FAILED
\* the function is past the loop and makes no further status call.
C14_TerminalEndsLoop ==
    job_status \in {"COMPLETE", "FAILED"} => jpc \in {"sleep", "returned"}

\* C15 as stated: when main runs against an account that holds a knowledge
\* base named pets-kb-s3vectordb-<suffix>, whatever else the account lists:
\* no creation call is made, the knowledge base id main goes on with (and
\* hands to the ingestion) is the id of the knowledge base of that name, and
\* the data source used is the first one listed for it.
C15_ReusesNamedKnowledgeBase ==
    \A i \in 1..Len(acctKbs) :
        (acctKbs[i].name = PetsKbName /\ mpc # "list_knowledge_bases") =>
            /\ ~created
            /\ mpc # "raised" => knowledge_base_id = acctKbs[i].id
            /\ mpc \in {"prepare", "ingest", "done"} =>
                  data_source_id = Head(DataSourcesOf(acctDss, acctKbs[i].id))
            /\ mpc = "done" =>
                  ingestedInto = <<acctKbs[i].id,
                                   Head(DataSourcesOf(acctDss, acctKbs[i].id))>>

\* C16 as stated: the vector index a run provisions with has the dimension
\* that is the declared width of the run's embedding model, and a run whose
\* model width and index dimension differ is rejected as a configuration
\* error, without a provisioning step being made.
C16_DimensionMatchesModel ==
    (run > 0 /\ embedding_model \in valid_embedding_models) =>
        /\ self_.vector_index_arn # "" =>
              indexDimension = DeclaredWidth(embedding_model)
        /\ indexDimension \notin {0, DeclaredWidth(embedding_model)} =>
              ppc = "rejected"

\* C17 as stated: when an attempt of create_knowledge_base created the
\* knowledge base and then failed on create_data_source with an error other
\* than a conflict, no later attempt of the run fails on the conflict of the
\* knowledge base it meets: the knowledge base is adopted, and a run that
\* meets no further service error ends with the knowledge base and a data
\* source.
C17_DataSourceFailureRecovered ==
    \A i \in 1..Len(attempts) :
        attempts[i] = "ds_error" =>
            /\ \A j \in (i + 1)..Len(attempts) : attempts[j] # "kb_conflict"
            /\ (/\ ppc \in {"failed", "constructed"}
                /\ \A j \in (i + 1)..Len(attempts) :
                      attempts[j] \notin {"kb_error", "ds_error"}
                /\ i < Len(attempts))
                  => /\ ppc = "constructed"
                     /\ self_.knowledge_base # 0
                     /\ self_.data_source # 0

\* The method create_bedrock_kb_execution_role has returned from a call.
RoleBuilderReturned == roleCalls >= 1 /\ ppc = "create_knowledge_base"

\* Number of calls of the given name in the log of the current call.
CallCount(name) == Cardinality({i \in 1..Len(calls) : calls[i] = name})

\* C18 as stated: each of the two policies is adopted by
\* create-or-update-version: for every policy that was fetched because it
\* existed, a new version was pushed, and after the call the default version
\* of each of the two policies is the required document.
C18_BothPoliciesUpdated ==
    RoleBuilderReturned =>
        /\ CallCount("iam.create_policy_version") = CallCount("iam.get_policy")
        /\ \A p \in {"fm_policy", "s3_policy"} : policyDoc[p] = "required"

\* Positions of the calls of the given name in the log of the current call.
CallsAt(name) == {i \in 1..Len(calls) : calls[i] = name}

\* C19: after create_bedrock_kb_execution_role has returned, the role's
\* trust policy is the required document (the knowledge-base service
\* principal and nothing else), whatever it was before the call; when the
\* role was fetched rather than created, update_assume_role_policy was called
\* right after get_role and before both attach_role_policy calls.
C19_TrustOverwritten ==
    RoleBuilderReturned =>
        /\ trust = "required"
        /\ "role" \in account
        /\ Cardinality(CallsAt("iam.attach_role_policy")) = 2
        /\ \A g \in CallsAt("iam.get_role") :
              /\ calls[g + 1] = "iam.update_assume_role_policy"
              /\ \A a \in CallsAt("iam.attach_role_policy") : g + 1 < a
        /\ Cardinality(CallsAt("iam.update_assume_role_policy"))
              = Cardinality(CallsAt("iam.get_role"))

\* C19 witness: the first call met a role with another trust policy, fetched
\* it, rewrote its trust policy and attached the two policies.
C19_Witness ==
    /\ RoleBuilderReturned /\ roleCalls = 1 /\ trustBefore = "stale"
    /\ CallsAt("iam.get_role") # {}
    /\ CallsAt("iam.update_assume_role_policy") # {}
    /\ trust = "required"
    /\ roleAttached = {"fm_policy", "s3_policy"}

\* C20 as stated: whatever the number n of calls of
\* create_bedrock_kb_execution_role with the same names, the n-th call
\* succeeds, returns the role ARN of the first call, and leaves the role and
\* the two policies in the account (names are unique, so one of each), both
\* policies attached to the role.
C20_SafeToRepeat ==
    (roleCalls >= 1 /\ ppc # "create_bedrock_kb_execution_role") =>
        /\ ppc = "create_knowledge_base"
        /\ self_.role = "arn:role"
        /\ IamNames \subseteq account
        /\ roleAttached = {"fm_policy", "s3_policy"}

\* C21: when the create_data_source call of an attempt was answered with the
\* conflict signal, the attempt is not failed by it: list_data_sources and
\* get_data_source follow, the data source held is the first one listed for
\* the knowledge base of the attempt, and the run ends with that knowledge
\* base and that data source.
C21_DataSourceConflictAdopted ==
    dsOutcome = "conflict" =>
        /\ ppc = "constructed"
        /\ attempts[Len(attempts)] = "ok"
        /\ self_.knowledge_base # 0
        /\ DataSourcesOf(dss, self_.knowledge_base) # <<>>
        /\ self_.data_source = DataSourcesOf(dss, self_.knowledge_base)[1]
        /\ \E i \in 1..Len(dss) :
              dss[i].id = self_.data_source /\ dss[i].kb = self_.knowledge_base
        /\ Len(calls) >= 3
        /\ SubSeq(calls, Len(calls) - 2, Len(calls))
              = <<"bedrock.create_data_source", "bedrock.list_data_sources",
                  "bedrock.get_data_source">>
        /\ results[Len(results)].ok
        /\ results[Len(results)].fields = self_

\* C21 witness: a run whose create_data_source call was answered with the
\* conflict signal has ended with the data source adopted.
C21_Witness ==
    /\ dsOutcome = "conflict" /\ ppc = "constructed"
    /\ self_.data_source # 0 /\ self_.knowledge_base # 0

\* Position, in the log of the run, of the first create_knowledge_base call.
FirstKbCreate ==
    CHOOSE k \in CallsAt("bedrock.create_knowledge_base") :
        \A m \in CallsAt("bedrock.create_knowledge_base") : k <= m

\* C22: in every run, the create_index call comes after the call that
\* created or fetched the vector bucket; the first create_knowledge_base
\* call comes after the vector bucket and index ARNs are set, after both
\* attach_role_policy calls and after the propagation wait that follows
\* them; and the vector-store calls and the role builder's calls appear once
\* in the run, before the first attempt, however many attempts the retry
\* wrapper makes.
C22_DependencyOrder ==
    /\ \A i \in CallsAt("s3vectors.create_index") :
          /\ "vector_bucket" \in account
          /\ \E j \in CallsAt("s3vectors.create_vector_bucket") : j < i
          /\ \A j \in CallsAt("s3vectors.get_vector_bucket") : j < i
    /\ Cardinality(CallsAt("s3vectors.create_vector_bucket")) <= 1
    /\ Cardinality(CallsAt("s3vectors.create_index")) <= 1
    /\ Cardinality(CallsAt("iam.create_role")) <= 1
    /\ Cardinality(CallsAt("iam.create_policy")) <= 2
    /\ Cardinality(CallsAt("iam.attach_role_policy")) <= 2
    /\ CallsAt("bedrock.create_knowledge_base") # {} =>
          /\ self_.vector_bucket_arn # "" /\ self_.vector_index_arn # ""
          /\ self_.role # ""
          /\ {"vector_bucket", "vector_index", "role"} \subseteq account
          /\ roleAttached = {"fm_policy", "s3_policy"}
          /\ Cardinality(CallsAt("s3vectors.create_index")) = 1
          /\ Cardinality(CallsAt("iam.create_role")) = 1
          /\ Cardinality(CallsAt("iam.attach_role_policy")) = 2
          /\ \A i \in CallsAt("s3vectors.create_index")
                      \cup CallsAt("iam.create_role")
                      \cup CallsAt("iam.create_policy")
                      \cup CallsAt("iam.attach_role_policy") : i < FirstKbCreate
          /\ \E w \in CallsAt("sleep") :
                /\ w < FirstKbCreate
                /\ \A a \in CallsAt("iam.attach_role_policy") : a < w

\* C22 witness: a run that adopted the vector bucket and needed three
\* attempts of create_knowledge_base has ended.
C22_Witness ==
    /\ ppc = "constructed" /\ Len(attempts) = 3
    /\ CallsAt("s3vectors.get_vector_bucket") # {}
    /\ Cardinality(CallsAt("bedrock.create_knowledge_base")) = 3
    /\ Cardinality(CallsAt("iam.create_role")) = 1

\* C23: ingest_single_document always ends with a boolean: it never leaves by
\* an exception, every status fetch follows one 5-unit wait, at most 12
\* fetches are made, the loop is never left waiting past 60 units, and while
\* the function is still polling another iteration is due, whatever the
\* service answers.
C23_BoundedPollingReturnsBoolean ==
    /\ ipc # "raised"
    /\ waited = PollInterval * fetches
    /\ fetches <= 12
    /\ waited <= 60
    /\ ipc = "poll" => LoopContinues(waited)
    /\ Returned => ret[idx] \in {"True", "False"}
    /\ \A d \in 1..nFiles :
         (d < idx \/ (d = idx /\ ipc \notin {"submit", "poll"}))
            => ret[d] \in {"True", "False"}

\* Twelve fetches that never decide (errors and empty answers among them):
\* the function returns False at 60 units.
C23_Witness ==
    /\ ipc = "returned"
    /\ ~submitRaised
    /\ fetches = 12
    /\ waited = 60
    /\ pollRaised
    /\ ~sawIndexed
    /\ ~sawFailed
    /\ ret[idx] = "False"

\* C24: ingest_single_document returns True only after a status fetch made
\* after the submission answered INDEXED with no FAILED answer before it; the
\* status of the submit response decides nothing (the function goes on to
\* poll, also for a document reported FAILED at submission), and without an
\* INDEXED or FAILED answer from a fetch the function returns only at the
\* timeout, so an empty answer or a fetch that raised decides nothing.
C24_OnlyPolledStatusDecides ==
    /\ (ipc = "returned" /\ ret[idx] = "True") =>
          (~submitRaised /\ fetches >= 1 /\ sawIndexed /\ ~sawFailed)
    /\ (initStatus \in DocStatuses /\ fetches = 0) =>
          (ipc = "poll" /\ ret[idx] = "none")
    /\ (ipc = "returned" /\ ~submitRaised /\ ~sawIndexed /\ ~sawFailed) =>
          (waited = max_wait /\ ret[idx] = "False")
    /\ (ipc = "returned" /\ sawFailed) => ret[idx] = "False"

\* A document reported FAILED at submission whose later fetches raise, come
\* back empty and finally answer INDEXED: the function returns True.
C24_Witness ==
    /\ ipc = "returned"
    /\ initStatus = "FAILED"
    /\ fetches >= 3
    /\ pollRaised
    /\ sawIndexed
    /\ ret[idx] = "True"

\* C25: in delete_s3, whatever the number of objects in the bucket, every
\* object has been deleted when the bucket delete is issued: the bucket is
\* empty whenever delete_bucket is called.
C25_BucketEmptyAtDelete ==
    Issued({"delete_bucket"}) # {} => objects = {}

\* C26: create_s3_bucket is a lookup followed by a separate create: the
\* create is issued only after the invocation's own head_bucket found no
\* bucket (or failed); of the invocations that each saw the bucket absent and
\* had their create answered, one creates the bucket and every other one is
\* answered already-exists (outside us-east-1); and an already-exists answer
\* is never recovered by adoption: it leaves the invocation as an exception,
\* before any later step.
C26_LookupThenCreateRace ==
    /\ \A p \in Procs :
          createAnswer[p] # "none" =>
              headAnswer[p] \in {"NoSuchBucket", "ClientError"}
    /\ \A p \in Procs, q \in Procs :
          (/\ p # q
           /\ headAnswer[p] = "NoSuchBucket"
           /\ headAnswer[q] = "NoSuchBucket"
           /\ createAnswer[p] = "created"
           /\ createAnswer[q] \notin {"none", "ClientError"})
          => createAnswer[q] =
                IF region_name = "us-east-1" THEN "ok"
                ELSE "BucketAlreadyOwnedByYou"
    /\ \A p \in Procs :
          createAnswer[p] = "BucketAlreadyOwnedByYou" =>
              /\ rpc[p] = "raised"
              /\ raisedWith[p] = "BucketAlreadyOwnedByYou"
              /\ vector_bucket_arn[p] = Unresolved

\* The interleaving of C26: two invocations both saw the bucket absent, both
\* issued the create, one created the bucket and went on, the other was
\* answered already-exists and raised.
C26_Witness ==
    \E p \in Procs, q \in Procs :
        /\ p # q
        /\ headAnswer[p] = "NoSuchBucket"
        /\ headAnswer[q] = "NoSuchBucket"
        /\ createAnswer[p] = "created"
        /\ rpc[p] = "returned"
        /\ createAnswer[q] = "BucketAlreadyOwnedByYou"
        /\ rpc[q] = "raised"

\* C27: create_s3_vector_resources under concurrent invocations with the same
\* names: no invocation is left by a conflict (only a service fault stops
\* one), all invocations that return hold the same vector bucket ARN and the
\* same index ARN, those of the resources in the account, and the account
\* never holds more than one vector bucket or index of the names, and holds
\* exactly one of each once an invocation has returned.
C27_VectorAdoptionRaceFree ==
    /\ \A p \in Procs :
          raisedWith[p] \notin {"ConflictException", "NotFoundException"}
    /\ \A p \in Procs :
          (rpc[p] = "raised" /\ createAnswer[p] \notin
                {"ClientError", "BucketAlreadyOwnedByYou"})
              => raisedWith[p] = "ServiceException"
    /\ \A p \in Procs, q \in Procs :
          (rpc[p] = "returned" /\ rpc[q] = "returned") =>
              /\ vector_bucket_arn[p] = vector_bucket_arn[q]
              /\ vector_index_arn[p] = vector_index_arn[q]
    /\ \A p \in Procs :
          rpc[p] = "returned" =>
              /\ vectorBuckets = {vector_bucket_arn[p]}
              /\ vectorIndexes = {vector_index_arn[p]}
    /\ Cardinality(vectorBuckets) <= 1
    /\ Cardinality(vectorIndexes) <= 1

\* Two invocations raced on both resources and both returned: one created
\* the vector bucket, the other the index, and each adopted what the other
\* had created.
C27_Witness ==
    \E p \in Procs, q \in Procs :
        /\ p # q
        /\ rpc[p] = "returned"
        /\ rpc[q] = "returned"
        /\ vector_bucket_arn[p] = p
        /\ vector_bucket_arn[q] = p
        /\ vector_index_arn[p] = q
        /\ vector_index_arn[q] = q

====
